---- MODULE Spec2Model ----
(***************************************************************************)
(* Model of Secret_message/secret_message.py: the coordinate-line parser   *)
(* and grid renderer decode_secret_message_from_text, the self-test and    *)
(* the command-line entry point.                                           *)
(*                                                                         *)
(* A Python str is modelled as a sequence of one-character strings.  The   *)
(* value of a call is a record [raised, out]: raised is TRUE when the call *)
(* ends with an uncaught exception (the only one the renderer can produce  *)
(* is the IndexError of grid[y][x] = char), out is the returned str.       *)
(***************************************************************************)
EXTENDS Integers, Sequences, FiniteSets, TLC

\* ------------------------------------------------------------------ bounds

\* Largest number of lines of an input text handed to the renderer.
MaxLines == 3

\* ------------------------------------------------------- str primitives

\* The characters c of the model's alphabet with c.isspace().
Whitespace == {" ", "\t", "\n", "\r"}

\* The line boundaries str.splitlines() recognises within the alphabet.
LineBreaks == {"\n", "\r"}

Digits == {"0", "1", "2", "3", "4", "5", "6", "7", "8", "9"}

DigitVal(c) ==
    CASE c = "0" -> 0 [] c = "1" -> 1 [] c = "2" -> 2 [] c = "3" -> 3
      [] c = "4" -> 4 [] c = "5" -> 5 [] c = "6" -> 6 [] c = "7" -> 7
      [] c = "8" -> 8 [] c = "9" -> 9

RECURSIVE splitlines_from(_, _, _, _)
splitlines_from(s, i, cur, acc) ==
    IF i > Len(s)
    THEN IF cur = <<>> THEN acc ELSE Append(acc, cur)
    ELSE IF s[i] \in LineBreaks
         THEN LET crlf == s[i] = "\r" /\ i < Len(s) /\ s[i + 1] = "\n"
              IN splitlines_from(s, IF crlf THEN i + 2 ELSE i + 1,
                                 <<>>, Append(acc, cur))
         ELSE splitlines_from(s, i + 1, Append(cur, s[i]), acc)

\* text.splitlines(): the lines without their line boundaries; a trailing
\* boundary opens no further line.
splitlines(s) == splitlines_from(s, 1, <<>>, <<>>)

RECURSIVE lstrip(_)
lstrip(s) ==
    IF s # <<>> /\ Head(s) \in Whitespace THEN lstrip(Tail(s)) ELSE s

RECURSIVE rstrip(_)
rstrip(s) ==
    IF s # <<>> /\ s[Len(s)] \in Whitespace
    THEN rstrip(SubSeq(s, 1, Len(s) - 1))
    ELSE s

\* l.strip()
strip(s) == rstrip(lstrip(s))

RECURSIVE split_from(_, _, _, _)
split_from(s, i, cur, acc) ==
    IF i > Len(s)
    THEN IF cur = <<>> THEN acc ELSE Append(acc, cur)
    ELSE IF s[i] \in Whitespace
         THEN split_from(s, i + 1, <<>>,
                         IF cur = <<>> THEN acc ELSE Append(acc, cur))
         ELSE split_from(s, i + 1, Append(cur, s[i]), acc)

\* line.split(): the maximal runs of non-whitespace characters.
split(s) == split_from(s, 1, <<>>, <<>>)

\* The part of an integer literal after its optional sign.
int_body(tok) ==
    IF tok # <<>> /\ tok[1] \in {"+", "-"} THEN Tail(tok) ELSE tok

\* int(tok) succeeds: an optional sign, then decimal digits, single
\* underscores allowed between digits.  FALSE is the ValueError.
int_ok(tok) ==
    LET b == int_body(tok)
    IN /\ b # <<>>
       /\ b[1] \in Digits
       /\ b[Len(b)] \in Digits
       /\ \A i \in 1..Len(b) : b[i] \in Digits \cup {"_"}
       /\ \A i \in 1..(Len(b) - 1) : ~(b[i] = "_" /\ b[i + 1] = "_")

RECURSIVE int_digits(_, _)
int_digits(b, acc) ==
    IF b = <<>> THEN acc
    ELSE IF Head(b) = "_" THEN int_digits(Tail(b), acc)
         ELSE int_digits(Tail(b), 10 * acc + DigitVal(Head(b)))

\* int(tok), for a tok with int_ok(tok).
int(tok) ==
    LET v == int_digits(int_body(tok), 0)
    IN IF tok[1] = "-" THEN 0 - v ELSE v

\* ------------------------------------------------------------- renderer

RECURSIVE map_strip(_)
map_strip(ls) ==
    IF ls = <<>> THEN <<>> ELSE <<strip(Head(ls))>> \o map_strip(Tail(ls))

NonEmpty(ln) == ln # <<>>

\* lines = [ln for ln in (l.strip() for l in text.splitlines()) if ln]
stripped_lines(text) == SelectSeq(map_strip(splitlines(text)), NonEmpty)

\* parse_line with the token count tested by "< 3": extra tokens are
\* dropped instead of disqualifying the line.
parse_line_first_three(line) ==
    LET parts == split(line)
    IN IF Len(parts) < 3 THEN <<>>
       ELSE IF ~(int_ok(parts[2]) /\ int_ok(parts[3])) THEN <<>>
       ELSE << [char |-> parts[1], x |-> int(parts[2]), y |-> int(parts[3])] >>

\* The body of the parsing loop for one line: the sequence of entries it
\* appends to coords (none after a continue, one otherwise).
parse_line(line) ==
    LET parts == split(line)
    IN IF Len(parts) # 3 THEN <<>>
       ELSE IF ~(int_ok(parts[2]) /\ int_ok(parts[3])) THEN <<>>
       ELSE << [char |-> parts[1], x |-> int(parts[2]), y |-> int(parts[3])] >>

RECURSIVE parse_lines(_)
parse_lines(lines) ==
    IF lines = <<>> THEN <<>>
    ELSE parse_line(Head(lines)) \o parse_lines(Tail(lines))

\* coords after the parsing loop.
parse_coords(text) == parse_lines(stripped_lines(text))

Max(S) == CHOOSE m \in S : \A n \in S : n <= m

max_x_of(coords) == Max({coords[i].x : i \in 1..Len(coords)})

max_y_of(coords) == Max({coords[i].y : i \in 1..Len(coords)})

\* grid = [[" " for _ in range(max_x + 1)] for _ in range(max_y + 1)]
\* (range of a non-positive number is empty).
blank_grid(mx, my) == [r \in 1..(my + 1) |-> [c \in 1..(mx + 1) |-> <<" ">>]]

\* Python list indexing: a negative index counts from the end; -1 stands
\* for an IndexError.
list_index(i, n) ==
    LET j == IF i < 0 THEN i + n ELSE i
    IN IF j < 0 \/ j >= n THEN -1 ELSE j

\* place storing only the first character of the token: grid[y][x] = char[0]
RECURSIVE place_first_char(_, _, _)
place_first_char(grid, coords, i) ==
    IF i > Len(coords) THEN [raised |-> FALSE, grid |-> grid]
    ELSE LET e  == coords[i]
             yi == list_index(e.y, Len(grid))
         IN IF yi = -1 THEN [raised |-> TRUE, grid |-> grid]
            ELSE LET xi == list_index(e.x, Len(grid[yi + 1]))
                 IN IF xi = -1 THEN [raised |-> TRUE, grid |-> grid]
                    ELSE place_first_char(
                             [grid EXCEPT ![yi + 1][xi + 1] = <<e.char[1]>>],
                             coords, i + 1)

\* The placement loop: for char, x, y in coords: grid[y][x] = char
RECURSIVE place(_, _, _)
place(grid, coords, i) ==
    IF i > Len(coords) THEN [raised |-> FALSE, grid |-> grid]
    ELSE LET e  == coords[i]
             yi == list_index(e.y, Len(grid))
         IN IF yi = -1 THEN [raised |-> TRUE, grid |-> grid]
            ELSE LET xi == list_index(e.x, Len(grid[yi + 1]))
                 IN IF xi = -1 THEN [raised |-> TRUE, grid |-> grid]
                    ELSE place([grid EXCEPT ![yi + 1][xi + 1] = e.char],
                               coords, i + 1)

\* "".join(row)
RECURSIVE join_row(_)
join_row(row) ==
    IF row = <<>> THEN <<>> ELSE Head(row) \o join_row(Tail(row))

\* join_rows ending every row, the last one too, with a newline.
RECURSIVE join_rows_terminated(_)
join_rows_terminated(grid) ==
    IF grid = <<>> THEN <<>>
    ELSE join_row(grid[1]) \o <<"\n">> \o join_rows_terminated(Tail(grid))

\* "\n".join("".join(row) for row in grid)
RECURSIVE join_rows(_)
join_rows(grid) ==
    IF grid = <<>> THEN <<>>
    ELSE IF Len(grid) = 1 THEN join_row(grid[1])
    ELSE join_row(grid[1]) \o <<"\n">> \o join_rows(Tail(grid))

\* The value of the function once coords is known.
render_coords(coords) ==
    IF coords = <<>> THEN [raised |-> FALSE, out |-> <<>>]
    ELSE LET placed == place(blank_grid(max_x_of(coords), max_y_of(coords)),
                             coords, 1)
         IN IF placed.raised THEN [raised |-> TRUE, out |-> <<>>]
            ELSE [raised |-> FALSE, out |-> join_rows(placed.grid)]

\* The renderer handing the text back unchanged when no line parses,
\* instead of the empty string.
decode_returning_input(text) ==
    IF parse_coords(text) = <<>> THEN [raised |-> FALSE, out |-> text]
    ELSE render_coords(parse_coords(text))

decode_secret_message_from_text(text) == render_coords(parse_coords(text))

\* ---------------------------------------------------------------- inputs

\* "<tok> <x> <y>"
Line(tok, xs, ys) == tok \o <<" ">> \o xs \o <<" ">> \o ys

Toks == {<<"A">>, <<"B", "C">>}

\* The coordinate tokens of the generated entry lines: inside the grid, on
\* its far edge, and negative.
CoordPairs ==
    { << <<"0">>, <<"0">> >>,
      << <<"1">>, <<"0">> >>,
      << <<"0">>, <<"1">> >>,
      << <<"-", "1">>, <<"0">> >>,
      << <<"1">>, <<"-", "1">> >> }

EntryLines == {Line(t, c[1], c[2]) : t \in Toks, c \in CoordPairs}

\* Lines the parser has to skip, and one entry wrapped in extra whitespace.
OtherLines ==
    { <<>>,
      <<" ", "\t">>,
      <<"A", " ", "0">>,
      <<"A", " ", "0", " ", "0", " ", "0">>,
      <<"A", " ", "x", " ", "0">>,
      <<"\t", "B", " ", " ", "+", "1", "\t", "0", " ">> }

InputLines == EntryLines \cup OtherLines

RECURSIVE join_lines(_)
join_lines(ls) ==
    IF ls = <<>> THEN <<>>
    ELSE IF Len(ls) = 1 THEN ls[1]
    ELSE ls[1] \o <<"\n">> \o join_lines(Tail(ls))

\* Texts whose rendering is itself made of coordinate lines, so that a
\* second rendering has entries to place.
CraftedInputs ==
    { join_lines(<< Line(<<"A">>, <<"0">>, <<"0">>),
                    Line(<<"0">>, <<"2">>, <<"0">>),
                    Line(<<"0">>, <<"4">>, <<"0">>) >>),
      join_lines(<< Line(<<"A">>, <<"0">>, <<"0">>),
                    Line(<<"0">>, <<"2">>, <<"0">>),
                    Line(<<"0">>, <<"4">>, <<"0">>),
                    Line(<<"B">>, <<"0">>, <<"1">>),
                    Line(<<"1">>, <<"2">>, <<"1">>),
                    Line(<<"0">>, <<"4">>, <<"1">>) >>),
      join_lines(<< Line(<<"A", "B">>, <<"0">>, <<"0">>),
                    Line(<<"-", "1">>, <<"2">>, <<"0">>),
                    Line(<<"0">>, <<"4">>, <<"0">>) >>) }

Inputs ==
    {join_lines(ls) : ls \in UNION {[1..n -> InputLines] : n \in 0..MaxLines}}
        \cup CraftedInputs

\* ------------------------------------------------- sample and self-test

\* _SAMPLE: ten entries, each line ended by a newline.
SAMPLE ==
    join_lines(<< Line(<<"H">>, <<"0">>, <<"0">>),
                  Line(<<"E">>, <<"1">>, <<"0">>),
                  Line(<<"L">>, <<"2">>, <<"0">>),
                  Line(<<"L">>, <<"3">>, <<"0">>),
                  Line(<<"O">>, <<"4">>, <<"0">>),
                  Line(<<"W">>, <<"0">>, <<"1">>),
                  Line(<<"O">>, <<"1">>, <<"1">>),
                  Line(<<"R">>, <<"2">>, <<"1">>),
                  Line(<<"L">>, <<"3">>, <<"1">>),
                  Line(<<"D">>, <<"4">>, <<"1">>) >>) \o <<"\n">>

\* _SAMPLE_EXPECT
SAMPLE_EXPECT == <<"H", "E", "L", "L", "O", "\n", "W", "O", "R", "L", "D">>

\* What a finished process leaves behind: the values printed to stdout, the
\* kind of message on stderr, and the exit status.
Outcome(printed, err, code) ==
    [stdout |-> printed, stderr |-> err, status |-> code]

\* An exception nobody catches: the interpreter prints a traceback and
\* exits with status 1.
Traceback == Outcome(<<>>, "traceback", 1)

\* _self_test() followed by the print of the --test branch.
self_test_outcome ==
    LET r == decode_secret_message_from_text(SAMPLE)
    IN IF ~r.raised /\ r.out = SAMPLE_EXPECT
       THEN Outcome(<< <<"self-test passed">> >>, "none", 0)
       ELSE Traceback

\* ------------------------------------------------------------------ CLI

\* decode_secret_message(url): _fetch_text raises when the fetch fails,
\* otherwise the fetched document is rendered.
decode_secret_message(fetch_ok, doc) ==
    IF fetch_ok THEN decode_secret_message_from_text(doc)
    ELSE [raised |-> TRUE, out |-> <<>>]

\* print(decode_secret_message_from_text(t)) outside any try block.
print_render_outcome(t) ==
    LET r == decode_secret_message_from_text(t)
    IN IF r.raised THEN Traceback ELSE Outcome(<<r.out>>, "none", 0)

\* The branch without arguments treating a failure as the URL branch does:
\* an error message and status 2, no sample.
no_args_without_fallback(fetch_ok, doc) ==
    LET r == decode_secret_message(fetch_ok, doc)
    IN IF ~r.raised THEN Outcome(<<r.out>>, "none", 0)
       ELSE Outcome(<<>>, "error message", 2)

\* The branch taken without arguments: any exception of the fetch or of the
\* rendering is answered with a notice on stderr and the rendered sample.
no_args_outcome(fetch_ok, doc) ==
    LET r == decode_secret_message(fetch_ok, doc)
    IN IF ~r.raised THEN Outcome(<<r.out>>, "none", 0)
       ELSE LET s == decode_secret_message_from_text(SAMPLE)
            IN IF s.raised THEN Traceback
               ELSE Outcome(<<s.out>>, "fallback notice", 0)

\* The branch taken for an argument that is no existing path.
url_outcome(fetch_ok, doc) ==
    LET r == decode_secret_message(fetch_ok, doc)
    IN IF ~r.raised THEN Outcome(<<r.out>>, "none", 0)
       ELSE Outcome(<<>>, "error message", 2)

\* The branch taken for an argument that is an existing path: open() or
\* read() may fail, and nothing catches that or a failure of the rendering.
file_outcome(read_ok, doc) ==
    IF read_ok THEN print_render_outcome(doc) ELSE Traceback

\* Documents behind the URL or the path given to the command line.
Documents ==
    { SAMPLE,
      <<>>,
      Line(<<"Z">>, <<"2">>, <<"1">>),
      Line(<<"A">>, <<"-", "1">>, <<"0">>),
      join_lines(<< Line(<<"A">>, <<"0">>, <<"0">>),
                    Line(<<"B">>, <<"0">>, <<"0">>) >>) }

Invocations == {"none", "sample", "test", "file", "url"}

NoResult == [raised |-> FALSE, out |-> <<"?">>]

Running == Outcome(<<>>, "none", -1)

\* pc      where the program is: "start", "returned", "rerendered", "exit"
\* argv    "call" for a direct call of the renderer, otherwise the kind of
\*         command line
\* text    the text handed to the renderer, or the document behind the
\*         URL or path of the command line
\* result  the value of the direct call
\* again   the value of rendering result.out once more
\* fetch   "none", "ok" or "failed": what became of the fetch or file read
\* proc    the outcome of the process
VARIABLES pc, argv, text, result, again, fetch, proc

vars == <<pc, argv, text, result, again, fetch, proc>>

Init ==
    /\ pc = "start"
    /\ \/ argv = "call" /\ text \in Inputs
       \/ argv \in {"none", "file", "url"} /\ text \in Documents
       \/ argv \in {"sample", "test"} /\ text = SAMPLE
    /\ result = NoResult
    /\ again = NoResult
    /\ fetch = "none"
    /\ proc = Running

\* A caller applies the renderer to text.
Call ==
    /\ pc = "start"
    /\ argv = "call"
    /\ result' = decode_secret_message_from_text(text)
    /\ pc' = "returned"
    /\ UNCHANGED <<argv, text, again, fetch, proc>>

\* The caller feeds the rendered text back to the renderer.
Rerender ==
    /\ pc = "returned"
    /\ ~result.raised
    /\ again' = decode_secret_message_from_text(result.out)
    /\ pc' = "rerendered"
    /\ UNCHANGED <<argv, text, result, fetch, proc>>

MainNoArgs ==
    /\ pc = "start"
    /\ argv = "none"
    /\ \E ok \in BOOLEAN :
          /\ fetch' = IF ok THEN "ok" ELSE "failed"
          /\ proc' = no_args_outcome(ok, text)
    /\ pc' = "exit"
    /\ UNCHANGED <<argv, text, result, again>>

MainSample ==
    /\ pc = "start"
    /\ argv = "sample"
    /\ proc' = print_render_outcome(SAMPLE)
    /\ pc' = "exit"
    /\ UNCHANGED <<argv, text, result, again, fetch>>

MainTest ==
    /\ pc = "start"
    /\ argv = "test"
    /\ proc' = self_test_outcome
    /\ pc' = "exit"
    /\ UNCHANGED <<argv, text, result, again, fetch>>

MainFile ==
    /\ pc = "start"
    /\ argv = "file"
    /\ \E ok \in BOOLEAN :
          /\ fetch' = IF ok THEN "ok" ELSE "failed"
          /\ proc' = file_outcome(ok, text)
    /\ pc' = "exit"
    /\ UNCHANGED <<argv, text, result, again>>

MainUrl ==
    /\ pc = "start"
    /\ argv = "url"
    /\ \E ok \in BOOLEAN :
          /\ fetch' = IF ok THEN "ok" ELSE "failed"
          /\ proc' = url_outcome(ok, text)
    /\ pc' = "exit"
    /\ UNCHANGED <<argv, text, result, again>>

Next ==
    \/ Call
    \/ Rerender
    \/ MainNoArgs
    \/ MainSample
    \/ MainTest
    \/ MainFile
    \/ MainUrl

Spec == Init /\ [][Next]_vars

\* ------------------------------------------------- notions of the claims

\* A stripped line in the documented form: exactly three tokens, the last
\* two integer literals.
WellFormed(l) ==
    LET parts == split(l)
    IN Len(parts) = 3 /\ int_ok(parts[2]) /\ int_ok(parts[3])

\* A non-empty line that is not in the documented form.
Malformed(l) == strip(l) # <<>> /\ ~WellFormed(strip(l))

NotMalformed(l) == ~Malformed(l)

\* A line in the documented form whose x or y is negative.
NegativeLine(l) ==
    /\ WellFormed(strip(l))
    /\ \/ int(split(l)[2]) < 0
       \/ int(split(l)[3]) < 0

NotNegativeLine(l) == ~NegativeLine(l)

\* The input with its malformed lines removed.
WithoutMalformed(t) == join_lines(SelectSeq(splitlines(t), NotMalformed))

\* The input with its negative-coordinate lines removed.
WithoutNegative(t) == join_lines(SelectSeq(splitlines(t), NotNegativeLine))

NonNegativeEntry(e) == e.x >= 0 /\ e.y >= 0

\* The entries of the data model: x and y non-negative.
ValidEntries(t) == SelectSeq(parse_coords(t), NonNegativeEntry)

SingleChar(e) == Len(e.char) = 1

AllSingleChar(es) == \A i \in 1..Len(es) : SingleChar(es[i])

RECURSIVE OutRowsFrom(_, _, _, _)
OutRowsFrom(s, i, cur, acc) ==
    IF i > Len(s) THEN Append(acc, cur)
    ELSE IF s[i] = "\n" THEN OutRowsFrom(s, i + 1, <<>>, Append(acc, cur))
    ELSE OutRowsFrom(s, i + 1, Append(cur, s[i]), acc)

\* The rows of an output: the pieces between its newlines.
OutRows(out) == OutRowsFrom(out, 1, <<>>, <<>>)

\* The index of the last entry of es at (x, y), 0 when there is none.
LastEntryAt(es, x, y) ==
    LET S == {i \in 1..Len(es) : es[i].x = x /\ es[i].y = y}
    IN IF S = {} THEN 0 ELSE Max(S)

Returned == pc = "returned" /\ ~result.raised

\* ------------------------------------------------------------------ C1

\* C1: the renderer never raises: whatever the input text, the call returns
\* a string.
C1_NeverRaises == pc = "returned" => ~result.raised

\* ------------------------------------------------------------------ C2

\* C2: a line with a negative x or y is discarded: a returned string is the
\* string returned for the input with all negative-coordinate lines removed.
C2_NegativeLinesDiscarded ==
    Returned => result = decode_secret_message_from_text(WithoutNegative(text))

\* ------------------------------------------------------------------ C3

\* C3: when the input has a valid entry, the returned output has max_y + 1
\* rows, max_x and max_y being the maxima over the valid (non-negative)
\* entries; with single-character tokens every row is max_x + 1 characters
\* wide and every cell no valid entry addresses is a space.
C3_GridDimensions ==
    (Returned /\ ValidEntries(text) # <<>>) =>
        LET es   == ValidEntries(text)
            mx   == max_x_of(es)
            my   == max_y_of(es)
            rows == OutRows(result.out)
        IN /\ Len(rows) = my + 1
           /\ AllSingleChar(parse_coords(text)) =>
                 \A r \in 1..Len(rows) :
                    /\ Len(rows[r]) = mx + 1
                    /\ \A c \in 1..Len(rows[r]) :
                          LastEntryAt(es, c - 1, r - 1) = 0 => rows[r][c] = " "

\* ------------------------------------------------------------------ C4

\* C4: with single-character tokens, the cell of every valid entry holds
\* the token of the last valid entry of the input at the same (x, y).
C4_LastWriteWins ==
    (Returned /\ AllSingleChar(parse_coords(text))) =>
        LET es   == ValidEntries(text)
            rows == OutRows(result.out)
        IN \A i \in 1..Len(es) :
              /\ es[i].y + 1 <= Len(rows)
              /\ es[i].x + 1 <= Len(rows[es[i].y + 1])
              /\ <<rows[es[i].y + 1][es[i].x + 1]>>
                    = es[LastEntryAt(es, es[i].x, es[i].y)].char

\* ------------------------------------------------------------------ C5

\* C5: malformed lines (not three tokens, or a non-integer x or y) are
\* ignored: the call ends exactly as it ends for the input with those
\* lines removed, and only the well-formed lines contribute entries.
C5_MalformedLinesIgnored ==
    pc = "returned" =>
        /\ result = decode_secret_message_from_text(WithoutMalformed(text))
        /\ Len(parse_coords(text))
              = Len(SelectSeq(map_strip(splitlines(text)), WellFormed))

\* A render that returned a non-empty grid for an input holding both a
\* malformed and a well-formed line.
C5_Witness ==
    /\ Returned
    /\ result.out # <<>>
    /\ \E i \in 1..Len(splitlines(text)) : Malformed(splitlines(text)[i])
    /\ WithoutMalformed(text) # text

\* ------------------------------------------------------------------ C6

\* C6: the call returns the empty string when no valid entry remains after
\* filtering, and a non-empty string when at least one does.
C6_EmptyIffNoValidEntry ==
    pc = "returned" =>
        /\ ~result.raised
        /\ result.out = <<>> <=> ValidEntries(text) = <<>>

\* ------------------------------------------------------------------ C7

\* C7: rendering the built-in sample gives exactly "HELLO\nWORLD": --sample
\* prints it and the self-test passes.
C7_SampleRendersHelloWorld ==
    /\ (pc = "exit" /\ argv = "sample") =>
          proc = Outcome(<<SAMPLE_EXPECT>>, "none", 0)
    /\ (pc = "exit" /\ argv = "test") => proc.status = 0

C7_Witness == pc = "exit" /\ argv = "sample" /\ proc.stdout = <<SAMPLE_EXPECT>>

\* ------------------------------------------------------------------ C8

\* C8: rendering is no round trip: rendering a non-empty rendering again
\* never gives the same text back, and the empty rendering renders to
\* itself.
C8_NotARoundTrip ==
    pc = "rerendered" =>
        /\ result.out # <<>> => (again.raised \/ again.out # result.out)
        /\ result.out = <<>> => (~again.raised /\ again.out = <<>>)

\* A rendering whose own rendering is non-empty.
C8_Witness ==
    /\ pc = "rerendered"
    /\ result.out # <<>>
    /\ ~again.raised
    /\ again.out # <<>>

\* ------------------------------------------------------------------ C9

\* C9 as stated: after a failed fetch the command line prints the rendered
\* sample, gives the fallback notice and exits with status 0, with the
\* default URL and with a URL argument alike.
C9_FallbackOnEveryFetch ==
    (pc = "exit" /\ fetch = "failed" /\ argv \in {"none", "url"}) =>
        proc = Outcome(<<SAMPLE_EXPECT>>, "fallback notice", 0)

\* C9 amended: after a failed fetch, the invocation without arguments prints
\* the rendered sample, gives the fallback notice and exits with status 0;
\* the invocation with a URL argument prints nothing to stdout, reports the
\* error and exits with status 2.
C9_FallbackOnlyWithoutArguments ==
    (pc = "exit" /\ fetch = "failed") =>
        /\ argv = "none" => proc = Outcome(<<SAMPLE_EXPECT>>, "fallback notice", 0)
        /\ argv = "url" => proc = Outcome(<<>>, "error message", 2)

C9_Witness ==
    /\ pc = "exit"
    /\ fetch = "failed"
    /\ argv = "none"
    /\ proc.stderr = "fallback notice"

\* ----------------------------------------------------------------- C10

\* The cell an entry is written to, as the list indexing of the grid
\* resolves it (columns and rows counted from 0).
CellOf(e, w, h) == <<list_index(e.x, w), list_index(e.y, h)>>

\* The index of the last entry written to cell (cx, cy), 0 for none.
LastWriter(es, w, h, cx, cy) ==
    LET S == {i \in 1..Len(es) : CellOf(es[i], w, h) = <<cx, cy>>}
    IN IF S = {} THEN 0 ELSE Max(S)

\* What cell (cx, cy) is to show: the whole token of its last writer.
CellText(es, w, h, cx, cy) ==
    LET i == LastWriter(es, w, h, cx, cy)
    IN IF i = 0 THEN <<" ">> ELSE es[i].char

\* The number of characters of row cy to the left of cell cx.
RECURSIVE RowOffset(_, _, _, _, _)
RowOffset(es, w, h, cx, cy) ==
    IF cx = 0 THEN 0
    ELSE RowOffset(es, w, h, cx - 1, cy) + Len(CellText(es, w, h, cx - 1, cy))

\* C10: a token is stored whole: in a returned output every token that is
\* the last written to its cell appears in its row with all its characters,
\* after the full tokens of the cells to its left, so a row with a token of
\* more than one character is longer than max_x + 1.
C10_TokensStoredWhole ==
    (Returned /\ parse_coords(text) # <<>>) =>
        LET es   == parse_coords(text)
            w    == max_x_of(es) + 1
            h    == max_y_of(es) + 1
            rows == OutRows(result.out)
        IN /\ Len(rows) = h
           /\ \A cy \in 0..(h - 1) :
                 /\ Len(rows[cy + 1]) = RowOffset(es, w, h, w, cy)
                 /\ \A cx \in 0..(w - 1) :
                       LET off == RowOffset(es, w, h, cx, cy)
                           tok == CellText(es, w, h, cx, cy)
                       IN /\ SubSeq(rows[cy + 1], off + 1, off + Len(tok)) = tok
                          /\ Len(tok) > 1 => Len(rows[cy + 1]) > w

\* A returned row in which a two-character token is followed by the token
\* of the cell to its right.
C10_Witness ==
    /\ Returned
    /\ result.out = <<"B", "C", "A">>

====
